---- MODULE Spec2Model ----
(***************************************************************************)
(* Model of src/src/index.ts: the Express server, its GET /tools handler   *)
(* (a two-node LangGraph loop callModel <-> tools), the createVideo tool   *)
(* with its render-status polling loop, and the SIGTERM handler.           *)
(*                                                                         *)
(* The chat model and the render service are the environment: their        *)
(* answers are drawn from small sets.  Text built by template literals is  *)
(* modelled as a record naming the template and the values interpolated.   *)
(***************************************************************************)
EXTENDS Integers, Sequences, FiniteSets, TLC

\* ---------------------------------------------------------------- bounds
\* Longest message history explored for one /tools request.
MaxMessages == 4
\* Number of connections the server is offered in the server-lifecycle runs.
MaxRequests == 2
\* Longest history handed to routeModelOutput when it is checked on its own.
MaxHistory == 2

Req == 1..MaxRequests

\* ------------------------------------------------- environment value sets
RenderIds == {"id1", "id2"}
Urls == {"u1", "u2"}
Reasons == {"r1"}
HttpErrors == {[httpStatus |-> 500, text |-> "e1"]}
OtherStatuses == {"pending", "rendering"}

\* ------------------------------------------------------------- messages
objective == "Create a video about the winner of the most recent champions league"

END == "__end__"

\* Text of a message or of an Error: k names the template literal, status
\* and text are the values interpolated into it.
Content(k, status, text) == [k |-> k, status |-> status, text |-> text]

NoCalls == << >>

\* messages (lines 325-330): the plain {role, content} object; it has no
\* tool_calls property.
UserMessage ==
    [role |-> "user", content |-> Content("objective", 0, objective),
     has_tool_calls |-> FALSE, tool_calls |-> NoCalls, name |-> "", error |-> FALSE]

\* The AIMessage returned by model.invoke; tool_calls is always an array.
AIMessage(tc) ==
    [role |-> "ai", content |-> Content("ai", 0, ""),
     has_tool_calls |-> TRUE, tool_calls |-> tc, name |-> "", error |-> FALSE]

\* An AI message as it may be deserialised without a tool_calls property.
BareAIMessage ==
    [role |-> "ai", content |-> Content("ai", 0, ""),
     has_tool_calls |-> FALSE, tool_calls |-> NoCalls, name |-> "", error |-> FALSE]

\* The ToolMessage ToolNode makes of one call: the tool's content, or, when
\* the call raised, the text of the error (error = TRUE).
ToolMessage(name, content, isError) ==
    [role |-> "tool", content |-> content,
     has_tool_calls |-> FALSE, tool_calls |-> NoCalls, name |-> name, error |-> isError]

\* ---------------------------------------------------------------- tools
\* The three tools declared in the handler (lines 118, 143, 166).
DeclaredTools == {"search_internet", "send_tweet", "create_video"}

\* const TOOLS = [searchInternet, createVideo]  (line 265)
TOOLS == {"search_internet", "create_video"}

\* Results of the two stub tools (first element of the returned pair).
searchInternet == Content("search_result", 0, "Real Madrid")
sendTweet == Content("tweet_posted", 0, "")

\* ---------------------------------------------- render service responses
NoFetch == [m |-> "NONE", id |-> ""]
PostFetch == [m |-> "POST", id |-> ""]
GetFetch(id) == [m |-> "GET", id |-> id]

NoSubmitResponse == [ok |-> FALSE, httpStatus |-> 0, text |-> "", id |-> ""]
SubmitResponses ==
    {[ok |-> TRUE, httpStatus |-> 200, text |-> "", id |-> id] : id \in RenderIds}
    \cup {[ok |-> FALSE, httpStatus |-> e.httpStatus, text |-> e.text, id |-> ""] :
             e \in HttpErrors}

NoStatusResponse ==
    [ok |-> FALSE, httpStatus |-> 0, text |-> "", status |-> "", url |-> "",
     errorMessage |-> ""]
StatusResponses ==
    {[ok |-> TRUE, httpStatus |-> 200, text |-> "", status |-> s, url |-> "",
      errorMessage |-> ""] : s \in OtherStatuses}
    \cup {[ok |-> TRUE, httpStatus |-> 200, text |-> "", status |-> "completed",
           url |-> u, errorMessage |-> ""] : u \in Urls}
    \cup {[ok |-> TRUE, httpStatus |-> 200, text |-> "", status |-> "failed",
           url |-> "", errorMessage |-> m] : m \in Reasons}
    \cup {[ok |-> FALSE, httpStatus |-> e.httpStatus, text |-> e.text, status |-> "",
           url |-> "", errorMessage |-> ""] : e \in HttpErrors}

\* ------------------------------------------------------------ variables
VARIABLES
    listening,   \* the server accepts connections (app.listen, server.close)
    closing,     \* server.close() has been called
    closed,      \* the close callback has run ("Server shutting down")
    atClose,     \* the connections that were open when server.close() was called
    rpc,         \* per request: where its handler is
    messages,    \* per request: the graph state's messages channel
    trace,       \* per request: the graph nodes executed, in order
    branch,      \* per request: the last value routeModelOutput returned
    calls,       \* per request: the tool calls the running tools node awaits
    sent         \* per request: what res.send() sent

vars == <<listening, closing, closed, atClose, rpc, messages, trace, branch, calls, sent>>

NotSent == [sent |-> FALSE, messages |-> << >>]

\* ------------------------------------------------------ createVideo call
\* One call of a tool function inside ToolNode.  For createVideo the fields
\* are its locals: res (the POST response), renderId, response (the last
\* GET response), url; fetch is the request it awaits; out is its returned
\* content or the message of the Error it threw; waited records that the
\* one-second wait of line 247 has been taken.
NewCall(name, pc, fetch, out) ==
    [name |-> name, pc |-> pc, fetch |-> fetch, res |-> NoSubmitResponse,
     renderId |-> "", response |-> NoStatusResponse, url |-> "",
     waited |-> FALSE, out |-> out]

NoContent == Content("", 0, "")

Settled(c) == c.pc \in {"returned", "thrown"}

\* Variant: the check of res.ok (line 204) is missing.
createVideoSubmitted_NoOkCheck(c, resp) ==
    LET d == [c EXCEPT !.res = resp, !.renderId = resp.id]
    IN [d EXCEPT !.fetch = GetFetch(d.renderId), !.pc = "getting"]

\* lines 204-212: the submission's response.
createVideoSubmitted(c, resp) ==
    IF ~resp.ok
    THEN [c EXCEPT !.res = resp, !.fetch = NoFetch, !.pc = "thrown",
                   !.out = Content("submit_http_error", resp.httpStatus, resp.text)]
    ELSE LET d == [c EXCEPT !.res = resp, !.renderId = resp.id]
         IN [d EXCEPT !.fetch = GetFetch(d.renderId), !.pc = "getting"]

\* Variant: only "pending" is waited on, any other unfinished status throws.
createVideoPolled_UnknownFails(c, resp) ==
    IF ~resp.ok
    THEN [c EXCEPT !.response = resp, !.fetch = NoFetch, !.pc = "thrown",
                   !.out = Content("poll_http_error", resp.httpStatus, resp.text)]
    ELSE IF resp.status = "completed"
    THEN LET d == [c EXCEPT !.response = resp, !.fetch = NoFetch, !.url = resp.url]
         IN [d EXCEPT !.pc = "returned", !.out = Content("video_url", 0, d.url)]
    ELSE IF resp.status = "pending"
    THEN [c EXCEPT !.response = resp, !.fetch = NoFetch, !.pc = "wait"]
    ELSE [c EXCEPT !.response = resp, !.fetch = NoFetch, !.pc = "thrown",
                   !.out = Content("render_failed", 0, resp.errorMessage)]

\* Variant: the "failed" branch (lines 241-245) is missing.
createVideoPolled_IgnoreFailed(c, resp) ==
    IF ~resp.ok
    THEN [c EXCEPT !.response = resp, !.fetch = NoFetch, !.pc = "thrown",
                   !.out = Content("poll_http_error", resp.httpStatus, resp.text)]
    ELSE IF resp.status = "completed"
    THEN LET d == [c EXCEPT !.response = resp, !.fetch = NoFetch, !.url = resp.url]
         IN [d EXCEPT !.pc = "returned", !.out = Content("video_url", 0, d.url)]
    ELSE [c EXCEPT !.response = resp, !.fetch = NoFetch, !.pc = "wait"]

\* lines 227-247: one status response inside the while (true) loop.
createVideoPolled(c, resp) ==
    IF ~resp.ok
    THEN [c EXCEPT !.response = resp, !.fetch = NoFetch, !.pc = "thrown",
                   !.out = Content("poll_http_error", resp.httpStatus, resp.text)]
    ELSE IF resp.status = "completed"
    THEN LET d == [c EXCEPT !.response = resp, !.fetch = NoFetch, !.url = resp.url]
         IN [d EXCEPT !.pc = "returned", !.out = Content("video_url", 0, d.url)]
    ELSE IF resp.status = "failed"
    THEN [c EXCEPT !.response = resp, !.fetch = NoFetch, !.pc = "thrown",
                   !.out = Content("render_failed", 0, resp.errorMessage)]
    ELSE [c EXCEPT !.response = resp, !.fetch = NoFetch, !.pc = "wait"]

\* Variant: the loop gives up after one retry.
createVideoWaited_Capped(c) ==
    IF c.waited
    THEN [c EXCEPT !.pc = "thrown", !.out = Content("render_timeout", 0, "")]
    ELSE [c EXCEPT !.waited = TRUE, !.fetch = GetFetch(c.renderId), !.pc = "getting"]

\* line 247 then lines 217-225: the timer fires and the next GET is issued.
createVideoWaited(c) ==
    [c EXCEPT !.waited = TRUE, !.fetch = GetFetch(c.renderId), !.pc = "getting"]

\* ------------------------------------------------------- routeModelOutput
\* JavaScript values of the condition of line 298.
JsUndefined == [t |-> "undefined", n |-> 0, b |-> FALSE]
JsNumber(n) == [t |-> "number", n |-> n, b |-> FALSE]
JsBoolean(b) == [t |-> "boolean", n |-> 0, b |-> b]

JsTruthy(v) ==
    CASE v.t = "undefined" -> FALSE
      [] v.t = "number" -> v.n # 0
      [] v.t = "boolean" -> v.b

\* a || b
JsOr(a, b) == IF JsTruthy(a) THEN a ELSE b

\* (lastMessage as AIMessage)?.tool_calls?.length
ToolCallsLength(h) ==
    IF Len(h) = 0 THEN JsUndefined
    ELSE IF ~h[Len(h)].has_tool_calls THEN JsUndefined
    ELSE JsNumber(Len(h[Len(h)].tool_calls))

\* Variant: the condition reads `length >= 0`.
routeModelOutput_NonNegative(h) ==
    IF ToolCallsLength(h).t = "number" /\ ToolCallsLength(h).n >= 0 THEN "tools" ELSE END

\* lines 293-305; `x || 0 > 0` parses as `x || (0 > 0)`.
routeModelOutput(h) ==
    IF JsTruthy(JsOr(ToolCallsLength(h), JsBoolean(0 > 0))) THEN "tools" ELSE END

\* ------------------------------------------------------------- callModel
\* Variant: callModel returns the response alone, as if the channel concatenated.
callModel_OnlyResponse(h, response) == <<response>>

\* line 290: the update callModel returns for the messages channel.
callModel(h, response) == h \o <<response>>

\* -------------------------------------------------------------- ToolNode
\* What invoking one requested call does before its first await: a name
\* that is not in TOOLS raises `Tool "<name>" not found.`, the stub returns
\* at once, createVideo issues the POST of lines 192-202.
InvokeTool(name) ==
    IF name \notin TOOLS
    THEN NewCall(name, "thrown", NoFetch, Content("tool_not_found", 0, name))
    ELSE IF name = "search_internet"
    THEN NewCall(name, "returned", NoFetch, searchInternet)
    ELSE NewCall(name, "posting", PostFetch, NoContent)

\* ToolNode's output for one settled call: the tool's content, or, for a
\* call that raised, the error text ("Error: <message>\n Please fix your
\* mistakes."), ToolNode's default handleToolErrors being true.
ToolOutput(c) == ToolMessage(c.name, c.out, c.pc = "thrown")

\* Variant: the messages of calls that raised are left out.
NotError(m) == ~m.error
callTool_DropErrors(h, cs) ==
    h \o SelectSeq([i \in 1..Len(cs) |-> ToolOutput(cs[i])], NotError)

\* lines 307-313: the update callTool returns for the messages channel.
callTool(h, cs) == h \o [i \in 1..Len(cs) |-> ToolOutput(cs[i])]

\* ----------------------------------------------------------------- Init
Init ==
    /\ listening = TRUE
    /\ closing = FALSE
    /\ closed = FALSE
    /\ atClose = {}
    /\ rpc = [r \in Req |-> "idle"]
    /\ messages = [r \in Req |-> << >>]
    /\ trace = [r \in Req |-> << >>]
    /\ branch = [r \in Req |-> "none"]
    /\ calls = [r \in Req |-> << >>]
    /\ sent = [r \in Req |-> NotSent]

ServerVars == <<listening, closing, closed, atClose>>

\* -------------------------------------------------------------- actions
\* A GET /tools arrives: the handler builds its tools and graph and calls
\* reACT.invoke with the single user message (lines 325-336).
Accept(r) ==
    /\ listening
    /\ rpc[r] = "idle"
    /\ rpc' = [rpc EXCEPT ![r] = "callModel"]
    /\ messages' = [messages EXCEPT ![r] = <<UserMessage>>]
    /\ UNCHANGED <<ServerVars, trace, branch, calls, sent>>

\* The callModel node (lines 272-291); tc is the chat model's tool_calls.
CallModel(r, tc) ==
    /\ rpc[r] = "callModel"
    /\ Len(messages[r]) + 1 + Len(tc) <= MaxMessages
    /\ messages' = [messages EXCEPT ![r] = callModel(messages[r], AIMessage(tc))]
    /\ trace' = [trace EXCEPT ![r] = Append(trace[r], "callModel")]
    /\ rpc' = [rpc EXCEPT ![r] = "route"]
    /\ UNCHANGED <<ServerVars, branch, calls, sent>>

\* The conditional edge after callModel (line 320).
Route(r) ==
    /\ rpc[r] = "route"
    /\ branch' = [branch EXCEPT ![r] = routeModelOutput(messages[r])]
    /\ rpc' = [rpc EXCEPT ![r] = IF routeModelOutput(messages[r]) = "tools"
                                 THEN "tools" ELSE "end"]
    /\ UNCHANGED <<ServerVars, messages, trace, calls, sent>>

\* The tools node starts: ToolNode invokes every call of the last message.
ToolsStart(r) ==
    /\ rpc[r] = "tools"
    /\ LET last == messages[r][Len(messages[r])]
       IN calls' = [calls EXCEPT ![r] =
                       [i \in 1..Len(last.tool_calls) |-> InvokeTool(last.tool_calls[i])]]
    /\ trace' = [trace EXCEPT ![r] = Append(trace[r], "tools")]
    /\ rpc' = [rpc EXCEPT ![r] = "awaitTools"]
    /\ UNCHANGED <<ServerVars, messages, branch, sent>>

\* The render service answers the POST of call i.
SubmitResponse(r, i, resp) ==
    /\ rpc[r] = "awaitTools"
    /\ i \in DOMAIN calls[r]
    /\ calls[r][i].pc = "posting"
    /\ calls' = [calls EXCEPT ![r][i] = createVideoSubmitted(calls[r][i], resp)]
    /\ UNCHANGED <<ServerVars, rpc, messages, trace, branch, sent>>

\* The render service answers the GET of call i.
StatusResponse(r, i, resp) ==
    /\ rpc[r] = "awaitTools"
    /\ i \in DOMAIN calls[r]
    /\ calls[r][i].pc = "getting"
    /\ calls' = [calls EXCEPT ![r][i] = createVideoPolled(calls[r][i], resp)]
    /\ UNCHANGED <<ServerVars, rpc, messages, trace, branch, sent>>

\* The one-second timer of call i fires.
Timer(r, i) ==
    /\ rpc[r] = "awaitTools"
    /\ i \in DOMAIN calls[r]
    /\ calls[r][i].pc = "wait"
    /\ calls' = [calls EXCEPT ![r][i] = createVideoWaited(calls[r][i])]
    /\ UNCHANGED <<ServerVars, rpc, messages, trace, branch, sent>>

\* Variant: the edge from tools leads to END instead of callModel.
ToolsDone_ToEnd(r) ==
    /\ rpc[r] = "awaitTools"
    /\ \A i \in DOMAIN calls[r] : Settled(calls[r][i])
    /\ messages' = [messages EXCEPT ![r] = callTool(messages[r], calls[r])]
    /\ calls' = [calls EXCEPT ![r] = << >>]
    /\ rpc' = [rpc EXCEPT ![r] = "end"]
    /\ UNCHANGED <<ServerVars, trace, branch, sent>>

\* Every call has settled: the tools node returns its update and the edge
\* tools -> callModel is taken (line 321).
ToolsDone(r) ==
    /\ rpc[r] = "awaitTools"
    /\ \A i \in DOMAIN calls[r] : Settled(calls[r][i])
    /\ messages' = [messages EXCEPT ![r] = callTool(messages[r], calls[r])]
    /\ calls' = [calls EXCEPT ![r] = << >>]
    /\ rpc' = [rpc EXCEPT ![r] = "callModel"]
    /\ UNCHANGED <<ServerVars, trace, branch, sent>>

\* reACT.invoke resolved: res.send(response) (line 338).
Respond(r) ==
    /\ rpc[r] = "end"
    /\ sent' = [sent EXCEPT ![r] = [sent |-> TRUE, messages |-> messages[r]]]
    /\ rpc' = [rpc EXCEPT ![r] = "sent"]
    /\ UNCHANGED <<ServerVars, messages, trace, branch, calls>>

\* The connection of an answered request ends.
ConnectionEnd(r) ==
    /\ rpc[r] = "sent"
    /\ rpc' = [rpc EXCEPT ![r] = "ended"]
    /\ UNCHANGED <<ServerVars, messages, trace, branch, calls, sent>>

Open(r) == rpc[r] \notin {"idle", "ended"}

\* Variant: the handler only logs; server.close() is not called.
Sigterm_KeepListening ==
    /\ ~closing
    /\ closing' = TRUE
    /\ atClose' = {r \in Req : Open(r)}
    /\ UNCHANGED <<listening, closed, rpc, messages, trace, branch, calls, sent>>

\* process.on("SIGTERM") (lines 345-349): server.close(callback).
Sigterm ==
    /\ ~closing
    /\ closing' = TRUE
    /\ listening' = FALSE
    /\ atClose' = {r \in Req : Open(r)}
    /\ UNCHANGED <<closed, rpc, messages, trace, branch, calls, sent>>

\* The server's 'close' event: no connection is left, the callback runs.
CloseCallback ==
    /\ closing
    /\ ~closed
    /\ \A r \in Req : ~Open(r)
    /\ closed' = TRUE
    /\ UNCHANGED <<listening, closing, atClose, rpc, messages, trace, branch, calls, sent>>

\* ------------------------------------------------- chat model's answers
RECURSIVE SeqsUpTo(_, _)
SeqsUpTo(S, n) ==
    IF n = 0 THEN {<< >>}
    ELSE LET shorter == SeqsUpTo(S, n - 1)
         IN shorter \cup {Append(s, x) : s \in {t \in shorter : Len(t) = n - 1}, x \in S}

\* Any list of calls to declared tool names that fits the history bound.
ModelAnswers == SeqsUpTo(DeclaredTools, MaxMessages - 2)

\* ------------------------------------------------------- specifications
\* One /tools request, every answer of the chat model and the service.
Handler(r) ==
    \/ Accept(r)
    \/ \E tc \in ModelAnswers : CallModel(r, tc)
    \/ Route(r)
    \/ ToolsStart(r)
    \/ \E i \in 1..MaxMessages : \E resp \in SubmitResponses : SubmitResponse(r, i, resp)
    \/ \E i \in 1..MaxMessages : \E resp \in StatusResponses : StatusResponse(r, i, resp)
    \/ \E i \in 1..MaxMessages : Timer(r, i)
    \/ ToolsDone(r)
    \/ Respond(r)
    \/ ConnectionEnd(r)

Next == Handler(1)

Spec == Init /\ [][Next]_vars

\* The same, with the timers of setTimeout firing (line 247): a pending
\* one-second timer is not postponed forever.
LiveSpec == Spec /\ \A i \in 1..MaxMessages : WF_vars(Timer(1, i))

\* The server's life with several connections.  The chat model here asks
\* for one video on its first turn, or for nothing.
ServerAnswers(h) == IF Len(h) = 1 THEN {<< >>, <<"create_video">>} ELSE {<< >>}

ServerHandler(r) ==
    \/ Accept(r)
    \/ \E tc \in ServerAnswers(messages[r]) : CallModel(r, tc)
    \/ Route(r)
    \/ ToolsStart(r)
    \/ \E i \in 1..MaxMessages : \E resp \in SubmitResponses : SubmitResponse(r, i, resp)
    \/ \E i \in 1..MaxMessages : \E resp \in StatusResponses : StatusResponse(r, i, resp)
    \/ \E i \in 1..MaxMessages : Timer(r, i)
    \/ ToolsDone(r)
    \/ Respond(r)
    \/ ConnectionEnd(r)

NextServer ==
    \/ \E r \in Req : ServerHandler(r)
    \/ Sigterm
    \/ CloseCallback

SpecServer == Init /\ [][NextServer]_vars

\* routeModelOutput on its own: the state handed to it is any history of
\* at most MaxHistory messages, the empty one included.
RouteToolCalls == SeqsUpTo(DeclaredTools, 2)

RouteMessages ==
    {UserMessage, BareAIMessage, ToolMessage("search_internet", searchInternet, FALSE)}
    \cup {AIMessage(tc) : tc \in RouteToolCalls}

InitRoute ==
    /\ listening = TRUE
    /\ closing = FALSE
    /\ closed = FALSE
    /\ atClose = {}
    /\ rpc = [r \in Req |-> IF r = 1 THEN "route" ELSE "idle"]
    /\ \E h \in SeqsUpTo(RouteMessages, MaxHistory) :
           messages = [r \in Req |-> IF r = 1 THEN h ELSE << >>]
    /\ trace = [r \in Req |-> << >>]
    /\ branch = [r \in Req |-> "none"]
    /\ calls = [r \in Req |-> << >>]
    /\ sent = [r \in Req |-> NotSent]

NextRoute == Route(1)

SpecRoute == InitRoute /\ [][NextRoute]_vars

\* ================================================================ claims
CallIdx == 1..MaxMessages

IsPrefix(s, t) == Len(s) <= Len(t) /\ \A k \in 1..Len(s) : s[k] = t[k]

IsAI(m) == m.role = "ai"

\* The chat model's responses in the history, in order.
AIs(r) == SelectSeq(messages[r], IsAI)

\* Call i of request r exists before and after the step and the step changed it.
CallStepped(r, i) ==
    /\ i \in DOMAIN calls[r]
    /\ i \in DOMAIN calls'[r]
    /\ calls'[r][i] # calls[r][i]

\* ------------------------------------------------------------------- C1
C1_Step ==
    \A r \in Req : \A i \in CallIdx :
        CallStepped(r, i) =>
            LET c == calls[r][i]
                d == calls'[r][i]
            IN /\ (c.pc = "getting" /\ d.response.ok /\ d.response.status = "completed")
                    => /\ d.pc = "returned"
                       /\ d.fetch = NoFetch
                       /\ d.out = Content("video_url", 0, d.response.url)
               /\ (c.pc = "getting" /\ d.response.ok
                      /\ d.response.status \notin {"completed", "failed"})
                    => d.pc = "wait" /\ d.fetch = NoFetch
               /\ c.pc = "wait" => d.pc = "getting" /\ d.fetch = GetFetch(c.renderId)

\* C1: a "completed" status response ends the polling loop with a result
\* that carries that response's url; any status other than "completed" and
\* "failed" leads to the wait, and the wait to another status query.
C1_CompletedReturnsUrl == [][C1_Step]_vars

\* A call that waited at least once and then returned the url it was given.
C1_Witness ==
    \E r \in Req : \E i \in DOMAIN calls[r] :
        /\ calls[r][i].pc = "returned"
        /\ calls[r][i].waited
        /\ calls[r][i].response.url = "u2"
        /\ calls[r][i].out = Content("video_url", 0, "u2")

\* ------------------------------------------------------------------- C2
C2_Step ==
    \A r \in Req : \A i \in CallIdx :
        /\ CallStepped(r, i) =>
              LET c == calls[r][i]
                  d == calls'[r][i]
              IN (c.pc = "getting" /\ d.response.ok /\ d.response.status = "failed")
                    => /\ d.pc = "thrown"
                       /\ d.out = Content("render_failed", 0, d.response.errorMessage)
                       /\ d.url = ""
                       /\ d.fetch = NoFetch
        /\ (i \in DOMAIN calls[r] /\ i \in DOMAIN calls'[r]
               /\ calls[r][i].pc = "thrown" /\ calls[r][i].out.k = "render_failed")
              => calls'[r][i] = calls[r][i]

\* C2: a "failed" status response makes createVideo throw an error holding
\* that response's errorMessage; no url is returned and the call issues no
\* further request.
C2_FailedRaisesReason == [][C2_Step]_vars

C2_Witness ==
    \E r \in Req : \E i \in DOMAIN calls[r] :
        /\ calls[r][i].pc = "thrown"
        /\ calls[r][i].waited
        /\ calls[r][i].out = Content("render_failed", 0, "r1")

\* ------------------------------------------------------------------- C3
OnlyPendingSoFar(c) ==
    /\ c.name = "create_video"
    /\ c.res.ok
    /\ c.response = NoStatusResponse \/ (c.response.ok /\ c.response.status = "pending")

C3_Inv ==
    \A r \in Req : \A i \in DOMAIN calls[r] :
        OnlyPendingSoFar(calls[r][i]) =>
            /\ calls[r][i].pc \in {"getting", "wait"}
            /\ rpc[r] = "awaitTools"
            /\ ~sent[r].sent

Waiting(i) == i \in DOMAIN calls[1] /\ calls[1][i].pc = "wait"
Querying(i) == i \in DOMAIN calls[1] /\ calls[1][i].pc = "getting"

\* C3: while every status response is a successful "pending", createVideo
\* neither returns nor throws and the request sends no response; each wait
\* is followed by another status query, without any cap.
C3_PendingNeverTerminates ==
    /\ []C3_Inv
    /\ \A i \in CallIdx : [](Waiting(i) => <>Querying(i))

\* A call that has already waited and is waiting again on "pending".
C3_Witness ==
    \E i \in DOMAIN calls[1] :
        /\ calls[1][i].pc = "wait"
        /\ calls[1][i].waited
        /\ calls[1][i].response.status = "pending"

\* ------------------------------------------------------------------- C4
LastRequestsCalls(h) ==
    /\ Len(h) > 0
    /\ h[Len(h)].has_tool_calls
    /\ Len(h[Len(h)].tool_calls) >= 1

\* C4: routeModelOutput returns "tools" exactly when the last message of
\* the history carries one or more tool calls, and END otherwise.
C4_RouteIffToolCalls ==
    branch[1] # "none" =>
        /\ branch[1] \in {"tools", END}
        /\ branch[1] = "tools" <=> LastRequestsCalls(messages[1])

C4_Witness ==
    /\ branch[1] = "tools"
    /\ Len(messages[1]) = 2
    /\ Len(messages[1][2].tool_calls) = 2

\* ------------------------------------------------------------------- C5
C5_Shape(r) ==
    LET t == trace[r]
        a == AIs(r)
        n == Len(t)
    IN /\ \A k \in 1..n : t[k] = IF k % 2 = 1 THEN "callModel" ELSE "tools"
       /\ Len(a) = (n + 1) \div 2
       /\ \A j \in 1..(n \div 2) : Len(a[j].tool_calls) >= 1
       /\ rpc[r] \in {"end", "sent", "ended"}
             => n % 2 = 1 /\ Len(a[Len(a)].tool_calls) = 0
       /\ rpc[r] \in {"route"} => n % 2 = 1
       /\ rpc[r] \in {"tools"} => n % 2 = 1 /\ Len(a[Len(a)].tool_calls) >= 1
       /\ rpc[r] = "awaitTools" => n % 2 = 0 /\ n > 0
       /\ rpc[r] = "callModel" => n % 2 = 0
       /\ rpc[r] = "idle" => n = 0

C6_Step ==
    \A r \in Req :
        LET h == messages[r]
            g == messages'[r]
        IN /\ (rpc[r] = "idle" /\ rpc'[r] # "idle") => g = <<UserMessage>>
           /\ rpc[r] # "idle" => IsPrefix(h, g)
           /\ (rpc[r] = "callModel" /\ rpc'[r] # "callModel")
                 => Len(g) = Len(h) + 1 /\ g[Len(g)].role = "ai"
           /\ (rpc[r] = "awaitTools" /\ rpc'[r] # "awaitTools")
                 => /\ Len(g) = Len(h) + Len(h[Len(h)].tool_calls)
                    /\ \A i \in 1..Len(h[Len(h)].tool_calls) :
                          /\ g[Len(h) + i].role = "tool"
                          /\ g[Len(h) + i].name = h[Len(h)].tool_calls[i]
                          /\ g[Len(h) + i].content = calls[r][i].out
           /\ (rpc[r] \notin {"idle", "callModel", "awaitTools"}) => g = h
           /\ sent'[r].sent => sent'[r].messages = g

\* C6: the history starts as the single user message and only grows by
\* appending: one response per model step, one result per requested call
\* per tools step; the HTTP response is the whole history.
C6_HistoryAppendOnly == [][C6_Step]_vars

C6_Witness ==
    /\ sent[1].sent
    /\ Len(sent[1].messages) = 4
    /\ sent[1].messages[1] = UserMessage
    /\ sent[1].messages[3].role = "tool"

\* ------------------------------------------------------------------- C7
\* C7: every declared tool is in the set the tools step executes, so a
\* requested call of any of the three is answered with that tool's result.
C7_DeclaredToolsExecuted ==
    \A r \in Req : \A k \in DOMAIN messages[r] :
        (messages[r][k].role = "tool" /\ messages[r][k].name \in DeclaredTools)
            => /\ messages[r][k].content.k # "tool_not_found"
               /\ messages[r][k].name = "send_tweet" => messages[r][k].content = sendTweet

\* ------------------------------------------------------------------- C8
VideoRaised(r) ==
    \/ \E i \in DOMAIN calls[r] :
          calls[r][i].name = "create_video" /\ calls[r][i].pc = "thrown"
    \/ \E k \in DOMAIN messages[r] :
          /\ messages[r][k].role = "tool"
          /\ messages[r][k].name = "create_video"
          /\ messages[r][k].error

\* C8 as stated: once createVideo has raised, no later model or tools step
\* runs for the request and no HTTP response is sent.
C8_ErrorEndsRequest ==
    [][\A r \in Req : VideoRaised(r) => trace'[r] = trace[r] /\ ~sent'[r].sent]_vars

C8_Step ==
    \A r \in Req :
        /\ (rpc[r] = "awaitTools" /\ rpc'[r] # "awaitTools")
              => /\ rpc'[r] = "callModel"
                 /\ Len(messages'[r]) = Len(messages[r]) + Len(calls[r])
                 /\ \A i \in DOMAIN calls[r] :
                       calls[r][i].pc = "thrown"
                          => messages'[r][Len(messages[r]) + i]
                                = ToolMessage(calls[r][i].name, calls[r][i].out, TRUE)
        /\ \A i \in CallIdx :
              (i \in DOMAIN calls[r] /\ i \in DOMAIN calls'[r] /\ calls[r][i].pc = "thrown")
                 => calls'[r][i] = calls[r][i]
        /\ sent'[r].sent
              => \A k \in DOMAIN messages[r] :
                    messages[r][k].error => sent'[r].messages[k] = messages[r][k]

\* C8 amended: an error raised by createVideo ends that call; the tools
\* step turns it into an error tool message appended to the history, the
\* next step is a model step, and the response sent at the end holds it.
C8_ErrorBecomesToolMessage == [][C8_Step]_vars

C8_Witness ==
    /\ sent[1].sent
    /\ Len(sent[1].messages) = 4
    /\ sent[1].messages[3] =
          ToolMessage("create_video", Content("render_failed", 0, "r1"), TRUE)
    /\ trace[1] = <<"callModel", "tools", "callModel">>

\* ------------------------------------------------------------------- C9
C9_Step ==
    /\ closing => \A r \in Req : rpc[r] = "idle" => rpc'[r] = "idle"
    /\ (~closing /\ closing')
          => /\ ~listening'
             /\ rpc' = rpc /\ messages' = messages /\ calls' = calls /\ sent' = sent
    /\ \A r \in Req : (Open(r) /\ rpc'[r] \in {"idle", "ended"}) => sent[r].sent
    /\ closed' => \A r \in Req : rpc'[r] \in {"idle", "ended"}

\* C9: after SIGTERM no new connection is accepted, the requests in flight
\* are left running and end only by sending their response, and the close
\* callback runs only when no request is in flight.
C9_GracefulShutdown == [][C9_Step]_vars

\* A request in flight at SIGTERM has been answered, the other connection
\* was never accepted, and the shutdown has completed.
C9_Witness ==
    /\ closed
    /\ atClose = {1}
    /\ sent[1].sent
    /\ Len(sent[1].messages) = 4
    /\ rpc[2] = "idle"

\* ------------------------------------------------------------------ C10
C10_Inv ==
    \A r \in Req : \A i \in DOMAIN calls[r] :
        LET c == calls[r][i]
        IN /\ c.fetch.m = "GET" => c.res.ok /\ c.fetch.id = c.res.id
           /\ c.pc = "thrown" => c.fetch = NoFetch

C10_Step ==
    \A r \in Req : \A i \in CallIdx :
        /\ CallStepped(r, i) =>
              LET c == calls[r][i]
                  d == calls'[r][i]
              IN /\ (c.pc = "posting" /\ ~d.res.ok)
                    => /\ d.pc = "thrown"
                       /\ d.out = Content("submit_http_error", d.res.httpStatus, d.res.text)
                 /\ (c.pc = "getting" /\ ~d.response.ok)
                    => /\ d.pc = "thrown"
                       /\ d.out = Content("poll_http_error", d.response.httpStatus,
                                          d.response.text)
        /\ (i \in DOMAIN calls[r] /\ i \in DOMAIN calls'[r]
               /\ calls[r][i].pc = "thrown" /\ calls[r][i].out.status # 0)
              => calls'[r][i] = calls[r][i]

\* C10: a status query is only in flight after a successful submission and
\* carries the id that submission returned; a non-success HTTP status of
\* either request makes the call throw an error with that status code and
\* text, after which it makes no request.
C10_QueriesFollowSubmission == []C10_Inv /\ [][C10_Step]_vars

C10_Witness ==
    \E r \in Req : \E i \in DOMAIN calls[r] :
        /\ calls[r][i].pc = "thrown"
        /\ calls[r][i].res.id = "id2"
        /\ calls[r][i].waited
        /\ calls[r][i].out = Content("poll_http_error", 500, "e1")

====
